---- MODULE Spec2Model ----
(***************************************************************************)
(* Model of traffic_analysis.py: the traffic-string parser parse_traffic   *)
(* and the module-level pipeline (drop the summary row, derive the GB      *)
(* column, filter, sort, lay out one rectangle per record on a per-day     *)
(* cumulative map, statistics, legend, save, console summary).             *)
(*                                                                         *)
(* Text is a sequence of one-character strings.  Numbers that Python holds *)
(* as floats are exact rationals [n, d, e] standing for (n / d) * 2^e in   *)
(* canonical form (n and d coprime, both odd, d > 0; zero is [0, 1, 0]),   *)
(* so that division by 1024, 1024^2, 1024^3 and 86400 is exact.            *)
(* Timestamps are whole seconds since midnight of day 0.                   *)
(***************************************************************************)
EXTENDS Integers, Sequences, FiniteSets, TLC

VARIABLES
    arg,               \* parse_traffic: the argument of the call under check
    ret,               \* parse_traffic: what the call returned or raised
    pc,                \* position of the module-level script
    csv,               \* rows of output.csv as read (line 13)
    df,                \* the data frame
    unique_ips,        \* line 55
    idx,               \* number of rows the for loop has processed
    daily_cumulative,  \* line 66: calendar day -> accumulated height
    rects,             \* patches added to the axes, in drawing order
    fig,               \* outline, title, limits, text box, legend of the figure
    stats,             \* the statistics of lines 146-150
    out                \* what went to disk and to the console

vars == <<arg, ret, pc, csv, df, unique_ips, idx, daily_cumulative, rects, fig, stats, out>>

-----------------------------------------------------------------------------
(* Bounds of the model.                                                    *)

\* longest traffic string enumerated over Alphabet
MaxLen == 3
\* most data rows of output.csv ahead of the summary row
MaxRows == 2
\* rows of the many-address inputs (more addresses than the legend shows)
LegendRows == 13

-----------------------------------------------------------------------------
(* Exact arithmetic standing for Python floats.                            *)

Abs(x) == IF x < 0 THEN -x ELSE x

RECURSIVE GCD(_, _)
GCD(a, b) == IF b = 0 THEN a ELSE GCD(b, a % b)

RECURSIVE Pow(_, _)
Pow(b, k) == IF k = 0 THEN 1 ELSE b * Pow(b, k - 1)

\* how many times 2 divides x (x # 0)
RECURSIVE TwoAdic(_)
TwoAdic(x) == IF x % 2 = 0 THEN 1 + TwoAdic(x \div 2) ELSE 0

\* the canonical form of (n / d) * 2^e, d > 0
Norm(n, d, e) ==
    IF n = 0 THEN [n |-> 0, d |-> 1, e |-> 0]
    ELSE LET a == TwoAdic(Abs(n))
             b == TwoAdic(d)
             n1 == n \div Pow(2, a)
             d1 == d \div Pow(2, b)
             g == GCD(Abs(n1), d1)
         IN [n |-> n1 \div g, d |-> d1 \div g, e |-> e + a - b]

FromInt(i) == Norm(i, 1, 0)
Zero == FromInt(0)
Ratio(a, b) == Norm(a, b, 0)

Min2(a, b) == IF a <= b THEN a ELSE b

Add(x, y) ==
    LET m == Min2(x.e, y.e)
        g == GCD(x.d, y.d)
    IN Norm(x.n * Pow(2, x.e - m) * (y.d \div g) + y.n * Pow(2, y.e - m) * (x.d \div g),
            (x.d \div g) * y.d, m)

Neg(x) == [x EXCEPT !.n = -x.n]
Sub(x, y) == Add(x, Neg(y))
Sign(x) == IF x.n > 0 THEN 1 ELSE IF x.n < 0 THEN -1 ELSE 0
\* x < y and x <= y, on a common denominator
Less(x, y) ==
    LET m == Min2(x.e, y.e)
    IN x.n * Pow(2, x.e - m) * y.d < y.n * Pow(2, y.e - m) * x.d
LessEq(x, y) == ~Less(y, x)

\* x / k for an integer k > 0
DivInt(x, k) ==
    LET j == TwoAdic(k)
        k1 == k \div Pow(2, j)
        g == GCD(Abs(x.n), k1)
    IN IF x.n = 0 THEN Zero
       ELSE [n |-> x.n \div g, d |-> x.d * (k1 \div g), e |-> x.e - j]

-----------------------------------------------------------------------------
(* Text.                                                                   *)

Digits == <<"0", "1", "2", "3", "4", "5", "6", "7", "8", "9">>
IsDigit(c) == \E k \in 1..10 : Digits[k] = c
DigitValue(c) == (CHOOSE k \in 1..10 : Digits[k] = c) - 1

\* 'sub in s' of Python
Contains(s, sub) ==
    \E k \in 0..(Len(s) - Len(sub)) : SubSeq(s, k + 1, k + Len(sub)) = sub

\* s.replace(c, '') of Python
Remove(s, c) == SelectSeq(s, LAMBDA x : x # c)

RECURSIVE DecValue(_)
DecValue(ds) ==
    IF ds = <<>> THEN 0
    ELSE 10 * DecValue(SubSeq(ds, 1, Len(ds) - 1)) + DigitValue(ds[Len(ds)])

\* float(s) of Python on the texts of TrafficInputs (none of them spells an
\* exponent, an infinity or a nan): an optional sign, digits with at most one
\* ".", and at least one digit; anything else is a ValueError.
FloatBody(s) == IF s # <<>> /\ s[1] \in {"-", "+"} THEN Tail(s) ELSE s
FloatOk(s) ==
    LET b == FloatBody(s)
    IN /\ \A k \in 1..Len(b) : IsDigit(b[k]) \/ b[k] = "."
       /\ Cardinality({k \in 1..Len(b) : b[k] = "."}) <= 1
       /\ \E k \in 1..Len(b) : IsDigit(b[k])
FloatOf(s) ==
    LET b == FloatBody(s)
        dots == {k \in 1..Len(b) : b[k] = "."}
        fraclen == IF dots = {} THEN 0 ELSE Len(b) - (CHOOSE k \in dots : TRUE)
        mag == DecValue(SelectSeq(b, IsDigit))
        sgn == IF s[1] = "-" THEN -1 ELSE 1
    IN Norm(sgn * mag, Pow(10, fraclen), 0)

-----------------------------------------------------------------------------
(* parse_traffic (lines 23-43).                                            *)

NaN == <<"NaN">>
ZeroByte == <<"0", "b", "y", "t", "e">>
Byte == <<"b", "y", "t", "e">>

Value(v) == [kind |-> "value", v |-> v]
Raise == [kind |-> "raise", exc |-> "ValueError"]

\* float(text), raising ValueError outside a try
FloatOrRaise(s) == IF FloatOk(s) THEN Value(FloatOf(s)) ELSE Raise

Scaled(r, k) == IF r.kind = "value" THEN Value(DivInt(r.v, k)) ELSE r

\* parse_traffic with the "K" rule dividing by 1024 as the "M" rule does
parse_traffic_kilo_as_mega(traffic_str) ==
    IF traffic_str = NaN \/ traffic_str = ZeroByte THEN Value(Zero)
    ELSE IF Contains(traffic_str, <<"G">>)
        THEN FloatOrRaise(Remove(traffic_str, "G"))
    ELSE IF Contains(traffic_str, <<"M">>)
        THEN Scaled(FloatOrRaise(Remove(traffic_str, "M")), 1024)
    ELSE IF Contains(traffic_str, <<"K">>)
        THEN Scaled(FloatOrRaise(Remove(traffic_str, "K")), 1024)
    ELSE IF Contains(traffic_str, Byte)
        THEN Value(Zero)
    ELSE IF FloatOk(traffic_str)
        THEN Value(DivInt(FloatOf(traffic_str), 1024 * 1024 * 1024))
        ELSE Value(Zero)

parse_traffic(traffic_str) ==
    IF traffic_str = NaN \/ traffic_str = ZeroByte THEN Value(Zero)
    ELSE IF Contains(traffic_str, <<"G">>)
        THEN FloatOrRaise(Remove(traffic_str, "G"))
    ELSE IF Contains(traffic_str, <<"M">>)
        THEN Scaled(FloatOrRaise(Remove(traffic_str, "M")), 1024)
    ELSE IF Contains(traffic_str, <<"K">>)
        THEN Scaled(FloatOrRaise(Remove(traffic_str, "K")), 1024 * 1024)
    ELSE IF Contains(traffic_str, Byte)
        THEN Value(Zero)
    ELSE IF FloatOk(traffic_str)
        THEN Value(DivInt(FloatOf(traffic_str), 1024 * 1024 * 1024))
        ELSE Value(Zero)

-----------------------------------------------------------------------------
(* The data the script works on.                                           *)

SecondsPerDay == 86400
LegendMax == 10

Stamp(day, h, m) == day * SecondsPerDay + h * 3600 + m * 60

\* start_date.replace(hour=0, minute=0, second=0, microsecond=0), as a day number
DayOf(t) == t \div SecondsPerDay

\* mdates.date2num: days since the epoch, as a float
date2num(t) == Ratio(t, SecondsPerDay)

IPs == {"10.0.0.1", "10.0.0.2"}

\* <<online, offline>>: no duration, five minutes, into the day after the next,
\* offline before online, one hour
Spans ==
    { <<Stamp(0, 10, 0), Stamp(0, 10, 0)>>, <<Stamp(0, 10, 0), Stamp(0, 10, 5)>>,
      <<Stamp(0, 10, 0), Stamp(2, 3, 0)>>,
      <<Stamp(1, 1, 0), Stamp(0, 10, 5)>>, <<Stamp(1, 1, 0), Stamp(1, 2, 0)>> }

RowTraffic == { <<"2", "G">>, <<"5", "1", "2", "M">>, ZeroByte, <<"-", "1", "G">> }

Row(ip, span, total) == [ip |-> ip, online |-> span[1], offline |-> span[2], total |-> total]

Rows == { Row(ip, span, total) : ip \in IPs, span \in Spans, total \in RowTraffic }

\* a record whose traffic text has a unit letter and is no number
MalformedRow == Row("10.0.0.1", <<Stamp(0, 10, 0), Stamp(0, 10, 5)>>, <<"1", "G", "B">>)

\* the last line of output.csv, a total over the records and no record itself
SummaryRow == Row("total", <<Stamp(0, 0, 0), Stamp(2, 3, 0)>>, <<"3", "G">>)

NoStats == [total_traffic |-> Zero, days |-> 0, avg_daily |-> Zero,
            max_single |-> Zero, max_daily |-> Zero]
NoFig == [outline |-> <<>>, title |-> <<>>, xlim |-> <<>>, locator |-> 0,
          text_ips |-> 0, legend |-> <<>>, ylim |-> <<>>]
NoOut == [png |-> FALSE, summary |-> FALSE]

-----------------------------------------------------------------------------
(* Helpers of the pipeline.                                                *)

Range(f) == {f[x] : x \in DOMAIN f}

RECURSIVE SumSeq(_)
SumSeq(s) == IF s = <<>> THEN Zero ELSE Add(SumSeq(SubSeq(s, 1, Len(s) - 1)), s[Len(s)])

RECURSIVE MaxSeq(_)
MaxSeq(s) ==
    IF Len(s) = 1 THEN s[1]
    ELSE LET m == MaxSeq(SubSeq(s, 1, Len(s) - 1))
         IN IF Less(m, s[Len(s)]) THEN s[Len(s)] ELSE m

MinInt(S) == CHOOSE x \in S : \A y \in S : x <= y
MaxInt(S) == CHOOSE x \in S : \A y \in S : y <= x

\* the frame kept whole, summary row and all
KeepLast(rows) == rows

\* df[:-1]
DropLast(rows) == SubSeq(rows, 1, Len(rows) - 1)

\* df['总流量.1'].apply(parse_traffic): the results, row by row
Parsed(rows) == [k \in 1..Len(rows) |-> parse_traffic(rows[k].total)]

\* df['流量_GB'] != 0
NonZero(row) == Sign(row.gb) # 0

\* df['流量_GB'] > 0
Positive(row) == Sign(row.gb) > 0

\* df[df['流量_GB'] > 0]
Cleaned(rows) == SelectSeq(rows, Positive)

\* sort_values('上线时间'): every order of the rows that ascends in 上线时间
\* (the sort is not asked to be stable, so rows with equal times come in any order)
RECURSIVE SortedOrders(_, _)
SortedOrders(rows, S) ==
    IF S = {} THEN {<<>>}
    ELSE UNION { { <<rows[m]>> \o rest : rest \in SortedOrders(rows, S \ {m}) } :
                 m \in {k \in S : \A j \in S : rows[k].online <= rows[j].online} }

\* df['IP地址'].unique(): the addresses in order of first appearance
RECURSIVE Unique(_)
Unique(ips) ==
    IF ips = <<>> THEN <<>>
    ELSE LET u == Unique(SubSeq(ips, 1, Len(ips) - 1))
             x == ips[Len(ips)]
         IN IF x \in Range(u) THEN u ELSE Append(u, x)

IpColumn(rows) == [k \in 1..Len(rows) |-> rows[k].ip]

\* ip_color_map: the point of np.linspace(0, 1, n) given to plt.cm.tab20
ColorOf(ips, ip) ==
    LET k == CHOOSE j \in 1..Len(ips) : ips[j] = ip
    IN IF Len(ips) = 1 THEN Zero ELSE Ratio(k - 1, Len(ips) - 1)

\* the least width given to a duration <= 0 only
WidthClampNonPositive(row) ==
    IF Sign(Ratio(row.offline - row.online, SecondsPerDay)) <= 0 THEN Ratio(1, 100)
    ELSE Ratio(row.offline - row.online, SecondsPerDay)

\* lines 75-79: the width of the rectangle, in days
Duration(row) == Ratio(row.offline - row.online, SecondsPerDay)
Width(row) == IF Less(Duration(row), Ratio(1, 100)) THEN Ratio(1, 100) ELSE Duration(row)

\* lines 85-89: the height already stacked on a day
Offset(dc, day) == IF day \in DOMAIN dc THEN dc[day] ELSE Zero

\* while current_date < end_date_only
LaterDaysExclusive(row) == (DayOf(row.online) + 1)..(DayOf(row.offline) - 1)

\* lines 101-107: the days after the start day up to the end day
LaterDays(row) == (DayOf(row.online) + 1)..DayOf(row.offline)

\* lines 85-86 and 98-107: the map after the record is added
Accumulate(dc, row) ==
    LET touched == {DayOf(row.online)} \cup LaterDays(row)
    IN [d \in DOMAIN dc \cup touched |->
           IF d \in touched THEN Add(Offset(dc, d), row.gb) ELSE dc[d]]

\* every rectangle drawn from the axis
RectOnAxis(dc, ips, row) ==
    [x |-> date2num(row.online), y |-> Zero,
     width |-> Width(row), height |-> row.gb, facecolor |-> ColorOf(ips, row.ip)]

\* lines 89-95
Rect(dc, ips, row) ==
    [x |-> date2num(row.online), y |-> Offset(dc, DayOf(row.online)),
     width |-> Width(row), height |-> row.gb, facecolor |-> ColorOf(ips, row.ip)]

\* sorted(daily_cumulative.keys()) and the totals in that order (lines 110-111)
RECURSIVE SortedKeys(_)
SortedKeys(S) == IF S = {} THEN <<>> ELSE <<MinInt(S)>> \o SortedKeys(S \ {MinInt(S)})
DailyTotals(dc) == LET ks == SortedKeys(DOMAIN dc) IN [k \in 1..Len(ks) |-> dc[ks[k]]]

\* value_counts(): address and count, most frequent first, equal counts in order
\* of first appearance
Count(ips, ip) == Cardinality({k \in 1..Len(ips) : ips[k] = ip})
ValueCounts(ips) ==
    LET u == Unique(ips)
        before(a, b) == \/ Count(ips, u[a]) > Count(ips, u[b])
                        \/ Count(ips, u[a]) = Count(ips, u[b]) /\ a < b
        place(a) == 1 + Cardinality({b \in 1..Len(u) : before(b, a)})
    IN [p \in 1..Len(u) |->
           LET a == CHOOSE a \in 1..Len(u) : place(a) = p
           IN [ip |-> u[a], count |-> Count(ips, u[a])]]

\* value_counts() without .head(10)
HeadAll(s) == s

\* .head(10)
Head10(s) == SubSeq(s, 1, Min2(LegendMax, Len(s)))

\* line 158
IpCounts(rows) == Head10(ValueCounts(IpColumn(rows)))

-----------------------------------------------------------------------------
(* The script, top to bottom.                                              *)

Fail == /\ pc' = "failed"
        /\ UNCHANGED <<arg, ret, csv, df, unique_ips, idx, daily_cumulative, rects, fig,
                       stats, out>>

\* lines 15-20: drop the summary row (the timestamps are parsed already)
DropSummaryRow ==
    /\ pc = "read"
    /\ df' = DropLast(csv)
    /\ pc' = "apply"
    /\ UNCHANGED <<arg, ret, csv, unique_ips, idx, daily_cumulative, rects, fig, stats, out>>

\* line 46: an exception of parse_traffic ends the script
ApplyParse ==
    /\ pc = "apply"
    /\ LET r == Parsed(df)
       IN IF \E k \in 1..Len(df) : r[k].kind = "raise"
          THEN Fail
          ELSE /\ df' = [k \in 1..Len(df) |->
                            [ip |-> df[k].ip, online |-> df[k].online,
                             offline |-> df[k].offline, total |-> df[k].total,
                             gb |-> r[k].v]]
               /\ pc' = "filter"
               /\ UNCHANGED <<arg, ret, csv, unique_ips, idx, daily_cumulative, rects,
                              fig, stats, out>>

\* line 49
Filter ==
    /\ pc = "filter"
    /\ df' = Cleaned(df)
    /\ pc' = "sort"
    /\ UNCHANGED <<arg, ret, csv, unique_ips, idx, daily_cumulative, rects, fig, stats, out>>

\* lines 52-66
SortRows ==
    /\ pc = "sort"
    /\ df' \in SortedOrders(df, 1..Len(df))
    /\ unique_ips' = Unique(IpColumn(df'))
    /\ idx' = 0
    /\ daily_cumulative' = <<>>
    /\ pc' = "loop"
    /\ UNCHANGED <<arg, ret, csv, rects, fig, stats, out>>

\* lines 68-107: one pass of the for loop
DrawRecord ==
    /\ pc = "loop"
    /\ idx < Len(df)
    /\ LET row == df[idx + 1]
       IN /\ rects' = Append(rects, Rect(daily_cumulative, unique_ips, row))
          /\ daily_cumulative' = Accumulate(daily_cumulative, row)
    /\ idx' = idx + 1
    /\ UNCHANGED <<arg, ret, pc, csv, df, unique_ips, fig, stats, out>>

\* lines 110-115: the loop is over; the outline of the daily totals
Outline ==
    /\ pc = "loop"
    /\ idx = Len(df)
    /\ fig' = [fig EXCEPT !.outline = DailyTotals(daily_cumulative)]
    /\ pc' = "title"
    /\ UNCHANGED <<arg, ret, csv, df, unique_ips, idx, daily_cumulative, rects, stats, out>>

\* line 118 and line 119 (of an empty column the minimum is NaT)
min_date == MinInt({df[k].online : k \in 1..Len(df)})
max_date == MaxInt({df[k].offline : k \in 1..Len(df)})

\* lines 118-143: title and x axis; NaT.strftime raises ValueError
Title ==
    /\ pc = "title"
    /\ IF df = <<>>
       THEN Fail
       ELSE /\ fig' = [fig EXCEPT
                          !.title = <<DayOf(min_date), DayOf(max_date)>>,
                          !.xlim = <<date2num(min_date - SecondsPerDay),
                                     date2num(max_date + SecondsPerDay)>>,
                          !.locator = IF (max_date - min_date) \div SecondsPerDay > 40
                                      THEN 5 ELSE 2]
            /\ pc' = "stats"
            /\ UNCHANGED <<arg, ret, csv, df, unique_ips, idx, daily_cumulative, rects,
                           stats, out>>

GbColumn(rows) == [k \in 1..Len(rows) |-> rows[k].gb]

\* max_date taken from the last row of the sorted frame
StatisticsLastRow(rows, dc) ==
    LET total == SumSeq(GbColumn(rows))
        days == DayOf(rows[Len(rows)].offline)
                - DayOf(MinInt({rows[k].online : k \in 1..Len(rows)})) + 1
    IN [total_traffic |-> total,
        days |-> days,
        avg_daily |-> IF days > 0 THEN DivInt(total, days) ELSE Zero,
        max_single |-> MaxSeq(GbColumn(rows)),
        max_daily |-> IF DOMAIN dc # {} THEN MaxSeq(DailyTotals(dc)) ELSE Zero]

\* lines 146-150
Statistics(rows, dc) ==
    LET total == SumSeq(GbColumn(rows))
        days == DayOf(MaxInt({rows[k].offline : k \in 1..Len(rows)}))
                - DayOf(MinInt({rows[k].online : k \in 1..Len(rows)})) + 1
    IN [total_traffic |-> total,
        days |-> days,
        avg_daily |-> IF days > 0 THEN DivInt(total, days) ELSE Zero,
        max_single |-> MaxSeq(GbColumn(rows)),
        max_daily |-> IF DOMAIN dc # {} THEN MaxSeq(DailyTotals(dc)) ELSE Zero]

\* lines 146-155: the statistics and the text box; NaT.date() raises ValueError
Stats ==
    /\ pc = "stats"
    /\ IF df = <<>>
       THEN Fail
       ELSE /\ stats' = Statistics(df, daily_cumulative)
            /\ fig' = [fig EXCEPT !.text_ips = Len(unique_ips)]
            /\ pc' = "legend"
            /\ UNCHANGED <<arg, ret, csv, df, unique_ips, idx, daily_cumulative, rects, out>>

\* lines 157-163
Legend ==
    /\ pc = "legend"
    /\ fig' = [fig EXCEPT !.legend = IpCounts(df)]
    /\ pc' = "save"
    /\ UNCHANGED <<arg, ret, csv, df, unique_ips, idx, daily_cumulative, rects, stats, out>>

\* lines 165-174
Save ==
    /\ pc = "save"
    /\ fig' = [fig EXCEPT !.ylim =
                  <<Zero, IF DOMAIN daily_cumulative # {}
                          THEN Add(MaxSeq(DailyTotals(daily_cumulative)),
                                   DivInt(MaxSeq(DailyTotals(daily_cumulative)), 20))
                          ELSE FromInt(10)>>]
    /\ out' = [out EXCEPT !.png = TRUE]
    /\ pc' = "print"
    /\ UNCHANGED <<arg, ret, csv, df, unique_ips, idx, daily_cumulative, rects, stats>>

\* lines 176-184
PrintSummary ==
    /\ pc = "print"
    /\ out' = [out EXCEPT !.summary = TRUE]
    /\ pc' = "done"
    /\ UNCHANGED <<arg, ret, csv, df, unique_ips, idx, daily_cumulative, rects, fig, stats>>

Idle == [kind |-> "idle"]

InitRun(rows) ==
    /\ arg = <<>>
    /\ ret = Idle
    /\ pc = "read"
    /\ csv = rows
    /\ df = <<>>
    /\ unique_ips = <<>>
    /\ idx = 0
    /\ daily_cumulative = <<>>
    /\ rects = <<>>
    /\ fig = NoFig
    /\ stats = NoStats
    /\ out = NoOut

\* output.csv: nothing at all, or up to MaxRows records and the summary row, or
\* a malformed record after at most one record
Inputs ==
    {<<>>}
    \cup { data \o <<SummaryRow>> : data \in UNION { [1..k -> Rows] : k \in 0..MaxRows } }
    \cup {<<MalformedRow, SummaryRow>>}
    \cup { <<r, MalformedRow, SummaryRow>> : r \in Rows }

Init == \E rows \in Inputs : InitRun(rows)

Next ==
    \/ DropSummaryRow
    \/ ApplyParse
    \/ Filter
    \/ SortRows
    \/ DrawRecord
    \/ Outline
    \/ Title
    \/ Stats
    \/ Legend
    \/ Save
    \/ PrintSummary

Spec == Init /\ [][Next]_vars

-----------------------------------------------------------------------------
(* parse_traffic on its own: one call on each input.                       *)

Alphabet == {"0", "1", "2", "-", ".", "G", "M", "K", "x"}

Examples ==
    { <<"1", ".", "5", "G", "B">>, <<"1", "0", "K", "b", "y", "t", "e">>,
      <<"2", "G">>, <<"5", "1", "2", "M">>, <<"1", "0", "4", "8", "5", "7", "6", "K">>,
      ZeroByte, <<"a", "b", "c">>, <<"1", "0", "7", "3", "7", "4", "1", "8", "2", "4">>,
      <<"-", "5", "G">>, <<"-", "2", "0", "0", "M">>, <<"-", "1", "0", "2", "4">>,
      Byte, <<"5">> \o Byte, <<"1", ".", "5", "G">>, <<"2", "0", "0", "M">>,
      <<"1", "0", "K">> }

TrafficInputs ==
    {NaN} \cup Examples \cup UNION { [1..k -> Alphabet] : k \in 0..MaxLen }

InitParse ==
    /\ arg \in TrafficInputs
    /\ ret = Idle
    /\ pc = "call"
    /\ csv = <<>>
    /\ df = <<>>
    /\ unique_ips = <<>>
    /\ idx = 0
    /\ daily_cumulative = <<>>
    /\ rects = <<>>
    /\ fig = NoFig
    /\ stats = NoStats
    /\ out = NoOut

Call ==
    /\ pc = "call"
    /\ ret' = parse_traffic(arg)
    /\ pc' = "returned"
    /\ UNCHANGED <<arg, csv, df, unique_ips, idx, daily_cumulative, rects, fig, stats, out>>

NextParse == Call

SpecParse == InitParse /\ [][NextParse]_vars

-----------------------------------------------------------------------------
(* The pipeline on inputs with more addresses than the legend shows: one   *)
(* record a minute, each from the address of the record before it or from  *)
(* an address not seen yet.                                                *)

Address(k) == "10.0.1." \o ToString(k)

ManyAddressInputs ==
    { [k \in 1..(LegendRows + 1) |->
          IF k = LegendRows + 1 THEN SummaryRow
          ELSE Row(Address(1 + Cardinality({j \in 2..k : fresh[j]})),
                   <<Stamp(0, 8, k), Stamp(0, 9, k)>>, <<"2", "G">>)] :
      fresh \in [2..LegendRows -> BOOLEAN] }

InitLegend == \E rows \in ManyAddressInputs : InitRun(rows)

SpecLegend == InitLegend /\ [][Next]_vars

-----------------------------------------------------------------------------
(* What the claims speak of, said from the input file.                     *)

Has(s, c) == \E k \in 1..Len(s) : s[k] = c
Hundredth == Ratio(1, 100)
Times(x, k) == Norm(x.n * k, x.d, x.e)

\* the records of output.csv are its rows csv[k] but the last
Records == 1..(Len(csv) - 1)
\* parse_traffic of every traffic text a row of the inputs carries
DerivedOf ==
    [s \in RowTraffic \cup {SummaryRow.total, MalformedRow.total} |-> parse_traffic(s)]
Derived(k) == DerivedOf[csv[k].total]
WithGb(k) ==
    [ip |-> csv[k].ip, online |-> csv[k].online,
     offline |-> csv[k].offline, total |-> csv[k].total, gb |-> Derived(k).v]
Kept == {k \in Records : Derived(k).kind = "value" /\ Sign(Derived(k).v) > 0}
NotKept == Records \ Kept
KeptIps == {csv[k].ip : k \in Kept}
KeptOf(ip) == {k \in Kept : csv[k].ip = ip}

RECURSIVE SumOver(_, _)
SumOver(S, f) ==
    IF S = {} THEN Zero
    ELSE LET k == CHOOSE k \in S : TRUE IN Add(f[k], SumOver(S \ {k}, f))

\* the largest of the values f[k], k in the non-empty S
MaxOver(S, f) == f[CHOOSE k \in S : \A j \in S : LessEq(f[j], f[k])]

\* the days a record is credited to: its start day and the days after it up to
\* its end day
DaysOf(row) == {DayOf(row.online)} \cup (DayOf(row.online)..DayOf(row.offline))
ExtraDays(row) == Cardinality(DaysOf(row)) - 1

GbOfKept == [k \in Kept |-> Derived(k).v]
TotalOfKept == SumOver(Kept, GbOfKept)
LargestOfKept == MaxOver(Kept, GbOfKept)
DaysOfKept == UNION {DaysOf(csv[k]) : k \in Kept}
\* the traffic credited to day d: that of every kept record the day belongs to
CreditedTo(d) == SumOver({k \in Kept : d \in DaysOf(csv[k])}, GbOfKept)
LargestDay == MaxOver(DaysOfKept, [d \in DaysOfKept |-> CreditedTo(d)])
SpanOfKept ==
    DayOf(MaxInt({csv[k].offline : k \in Kept}))
        - DayOf(MinInt({csv[k].online : k \in Kept})) + 1

AfterFilter == {"sort", "loop", "title", "stats", "legend", "save", "print", "done"}
AfterLoop == {"title", "stats", "legend", "save", "print", "done"}
AfterLegend == {"save", "print", "done"}

-----------------------------------------------------------------------------
(* C1: parse_traffic never raises; an input that is no well-formed traffic *)
(* value, such as a unit letter G, M or K with a remainder that is no      *)
(* number, returns 0.                                                      *)
C1_NeverRaises ==
    pc = "returned" =>
        /\ ret.kind = "value"
        /\ (/\ arg # NaN
            /\ \E c \in {"G", "M", "K"} : Has(arg, c) /\ ~FloatOk(Remove(arg, c)))
           => ret = Value(Zero)

\* a unit rule: the number left without the letter over the divisor, and no
\* value where nothing of a number is left
C2_Unit(s, c, divisor) ==
    LET rest == Remove(s, c)
    IN IF FloatOk(rest) THEN ret = Value(DivInt(FloatOf(rest), divisor))
       ELSE ret.kind # "value"

(* C2: parse_traffic applies its rules in order and returns gigabytes:     *)
(* missing or exactly "0byte" gives 0; else with "G" the number itself;    *)
(* else with "M" the number / 1024; else with "K" the number / 1024^2;     *)
(* else with "byte" 0; else a bare number / 1024^3 and a non-number 0.     *)
(* Where a unit rule applies and the rest is no number, no value is        *)
(* returned.  "2G" -> 2, "512M" -> 1/2, "1048576K" -> 1, "0byte" -> 0,     *)
(* "abc" -> 0, "1073741824" -> 1.                                          *)
C2_RulesInOrder ==
    pc = "returned" =>
        /\ IF arg = NaN \/ arg = ZeroByte THEN ret = Value(Zero)
           ELSE IF Has(arg, "G") THEN C2_Unit(arg, "G", 1)
           ELSE IF Has(arg, "M") THEN C2_Unit(arg, "M", 1024)
           ELSE IF Has(arg, "K") THEN C2_Unit(arg, "K", 1024 * 1024)
           ELSE IF Contains(arg, Byte) THEN ret = Value(Zero)
           ELSE IF FloatOk(arg) THEN ret = Value(DivInt(FloatOf(arg), 1024 * 1024 * 1024))
           ELSE ret = Value(Zero)
        /\ arg = <<"2", "G">> => ret = Value(FromInt(2))
        /\ arg = <<"5", "1", "2", "M">> => ret = Value(Ratio(1, 2))
        /\ arg = <<"1", "0", "4", "8", "5", "7", "6", "K">> => ret = Value(FromInt(1))
        /\ arg = ZeroByte => ret = Value(Zero)
        /\ arg = <<"a", "b", "c">> => ret = Value(Zero)
        /\ arg = <<"1", "0", "7", "3", "7", "4", "1", "8", "2", "4">> => ret = Value(FromInt(1))

\* a kilobyte count has been parsed and came out as one gigabyte
C2_Witness ==
    /\ pc = "returned"
    /\ arg = <<"1", "0", "4", "8", "5", "7", "6", "K">>
    /\ ret = Value(FromInt(1))

(* C3: every record whose derived traffic is <= 0 is absent from the       *)
(* cleaned records and every kept record has traffic > 0; the cleaned      *)
(* records are the records with traffic > 0 and nothing else, and only     *)
(* they reach the rectangles, the daily map and the statistics (total,     *)
(* largest single, largest day, record count, address count, per-address   *)
(* counts).                                                                *)
C3_Filtered ==
    /\ pc \in AfterFilter =>
        /\ \A j \in 1..Len(df) : Sign(df[j].gb) > 0
        /\ \A k \in NotKept : \A j \in 1..Len(df) :
               df[j].total # csv[k].total
        /\ \A r \in Range(df) \cup {WithGb(k) : k \in Kept} :
               Cardinality({j \in 1..Len(df) : df[j] = r})
                   = Cardinality({k \in Kept : WithGb(k) = r})
        /\ Len(rects) <= Cardinality(Kept)
        /\ \A j \in 1..Len(rects) : rects[j].height = df[j].gb
        /\ DOMAIN daily_cumulative \subseteq DaysOfKept
    /\ pc = "done" =>
        /\ Len(df) = Cardinality(Kept)
        /\ Len(rects) = Cardinality(Kept)
        /\ Len(unique_ips) = Cardinality(KeptIps)
        /\ stats.total_traffic = TotalOfKept
        /\ stats.max_single = LargestOfKept
        /\ stats.max_daily = LargestDay
        /\ \A j \in 1..Len(fig.legend) :
               fig.legend[j].count = Cardinality(KeptOf(fig.legend[j].ip))

\* the run is over, a record of negative traffic was in the file and another
\* record was kept
C3_Witness ==
    /\ pc = "done"
    /\ \E k \in NotKept : Sign(Derived(k).v) < 0
    /\ Kept # {}

(* C4: once the loop has processed every cleaned record, the values of the *)
(* daily cumulative map add up to the sum over the records of traffic      *)
(* times the number of days the record is credited to (its start day and   *)
(* every later day up to its end day, the full traffic each): the total    *)
(* traffic plus traffic times the number of extra days of each record, and *)
(* the total traffic itself when no record ends on a later day than it     *)
(* starts.                                                                 *)
C4_DailySum ==
    pc \in AfterLoop =>
        LET sum == SumOver(DOMAIN daily_cumulative, daily_cumulative)
            row(k) == csv[k]
        IN /\ sum = SumOver(Kept, [k \in Kept |->
                        Times(Derived(k).v, Cardinality(DaysOf(row(k))))])
           /\ sum = Add(TotalOfKept, SumOver(Kept, [k \in Kept |->
                        Times(Derived(k).v, ExtraDays(row(k)))]))
           /\ (\A k \in Kept : DayOf(row(k).offline) <= DayOf(row(k).online))
                  => sum = TotalOfKept

\* the run is over with a record that spans two extra days next to a record
\* that ends on the day before it starts
C4_Witness ==
    /\ pc = "done"
    /\ \E k \in Kept : ExtraDays(csv[k]) = 2
    /\ \E k \in Kept : DayOf(csv[k].offline) < DayOf(csv[k].online)

(* C5: every rectangle is at least 0.01 day wide: exactly 0.01 when the    *)
(* record lasts less than 0.01 day (no time at all, or offline before      *)
(* online), and as wide as the record lasts otherwise.                     *)
C5_MinWidth ==
    \A j \in 1..Len(rects) :
        LET secs == df[j].offline - df[j].online
            w == rects[j].width
        IN /\ LessEq(Hundredth, w)
           /\ 100 * secs < SecondsPerDay => w = Hundredth
           /\ 100 * secs >= SecondsPerDay => w = Ratio(secs, SecondsPerDay)

\* two rectangles are drawn, the first at the least width for a record that
\* lasts no time or goes offline before it came online
C5_Witness ==
    /\ Len(rects) = 2
    /\ df[1].offline <= df[1].online
    /\ df[2].offline > df[2].online
    /\ rects[1].width = Hundredth

(* C6: the legend has min(10, number of addresses of the cleaned records)  *)
(* entries, each another address with the number of its cleaned records,   *)
(* in order of non-increasing count, and no address left out has a         *)
(* strictly larger count than one that is shown.                           *)
C6_Legend ==
    pc \in AfterLegend =>
        LET L == fig.legend
            shown == {L[j].ip : j \in 1..Len(L)}
        IN /\ Len(L) = Min2(LegendMax, Cardinality(KeptIps))
           /\ \A i, j \in 1..Len(L) : i # j => L[i].ip # L[j].ip
           /\ \A j \in 1..Len(L) :
                  L[j].ip \in KeptIps /\ L[j].count = Cardinality(KeptOf(L[j].ip))
           /\ \A j \in 1..(Len(L) - 1) : L[j].count >= L[j + 1].count
           /\ \A ip \in KeptIps \ shown : \A j \in 1..Len(L) :
                  Cardinality(KeptOf(ip)) <= L[j].count

\* more than ten addresses, ten shown, counts that differ among those shown and
\* an address other than the first of the file at the head
C6_Witness ==
    /\ pc = "done"
    /\ Cardinality(KeptIps) > LegendMax
    /\ Len(fig.legend) = LegendMax
    /\ fig.legend[1].count > fig.legend[LegendMax].count
    /\ fig.legend[1].ip # csv[1].ip

(* C7: the statistics a run computes are a function of the input records   *)
(* alone, whatever order the sort leaves records of equal start time in:   *)
(* total traffic, span in days, daily average, largest single traffic,     *)
(* largest daily total, record count, address count, per-address counts.   *)
C7_Deterministic ==
    pc = "done" =>
        /\ stats = [total_traffic |-> TotalOfKept,
                    days |-> SpanOfKept,
                    avg_daily |-> IF SpanOfKept > 0 THEN DivInt(TotalOfKept, SpanOfKept)
                                  ELSE Zero,
                    max_single |-> LargestOfKept,
                    max_daily |-> LargestDay]
        /\ Len(df) = Cardinality(Kept)
        /\ Len(unique_ips) = Cardinality(KeptIps)
        /\ fig.text_ips = Cardinality(KeptIps)
        /\ Cardinality(KeptIps) <= LegendMax =>
               {<<fig.legend[j].ip, fig.legend[j].count>> : j \in 1..Len(fig.legend)}
                   = {<<ip, Cardinality(KeptOf(ip))>> : ip \in KeptIps}

\* a run is over in which the sort put two records of equal start time in the
\* order opposite to that of the file
C7_Witness ==
    /\ pc = "done"
    /\ Len(df) = 2
    /\ df[1].online = df[2].online
    /\ df[1] # df[2]
    /\ df[1] = WithGb(2)
    /\ df[2] = WithGb(1)

\* of two rectangles of one start day the later is at or above the top of the
\* earlier
C8_NoOverlap(rs) ==
    \A i, j \in 1..Len(rs) :
        (i < j /\ DayOf(df[i].online) = DayOf(df[j].online))
            => LessEq(Add(rs[i].y, rs[i].height), rs[j].y)

(* C8: a rectangle's vertical offset is the daily cumulative value of its  *)
(* start day as it was before the record's traffic is added (0 for a day   *)
(* not in the map) and its height is the record's traffic; so of two       *)
(* records with the same start day the later one starts at or above the    *)
(* top of the earlier one.                                                 *)
C8_Stacking ==
    [][ /\ Len(rects') = Len(rects) + 1 =>
            LET j == Len(rects')
                day == DayOf(df[j].online)
            IN /\ rects'[j].y = IF day \in DOMAIN daily_cumulative
                                THEN daily_cumulative[day] ELSE Zero
               /\ rects'[j].height = df[j].gb
               /\ daily_cumulative'[day] = Add(rects'[j].y, rects'[j].height)
        /\ C8_NoOverlap(rects') ]_vars

\* two records of one start day are drawn, the second on top of the first
C8_Witness ==
    /\ Len(rects) = 2
    /\ DayOf(df[1].online) = DayOf(df[2].online)
    /\ Sign(rects[1].y) = 0
    /\ rects[2].y = rects[1].height

(* C9: when no record is left after the last row is dropped and the rows   *)
(* of traffic <= 0 are filtered out, the run gets no further than the      *)
(* title, where it fails: it saves no image and prints no summary.         *)
C9_EmptyFails ==
    Kept = {} =>
        /\ pc \in {"read", "apply", "filter", "sort", "loop", "title", "failed"}
        /\ ~out.png
        /\ ~out.summary

\* the run has failed on a file whose records were all filtered out
C9_Witness ==
    /\ pc = "failed"
    /\ Records # {}
    /\ Kept = {}
    /\ df = <<>>

(* C10: the traffic in GB that parse_traffic returns is >= 0 for every     *)
(* input, also one with a minus sign.                                      *)
C10_NonNegative ==
    (pc = "returned" /\ ret.kind = "value") => Sign(ret.v) >= 0

====
